---------------------------- MODULE Spec2Model ----------------------------
(***************************************************************************)
(* A model of src/main.py: the TDS530 poll loop (TDS530DataCollector) and  *)
(* the latest-value store with its TSV log (TDS530Api).                    *)
(*                                                                         *)
(* Text is a sequence of one-character strings.  A byte that is not valid  *)
(* UTF-8 is the token "xFF"; decoding turns it into the token "uFFFD".     *)
(***************************************************************************)
EXTENDS Integers, Sequences, FiniteSets, TLC

(***************************************************************************)
(* Characters                                                              *)
(***************************************************************************)
DigitChars == <<"0", "1", "2", "3", "4", "5", "6", "7", "8", "9">>

D09 == {DigitChars[i] : i \in 1..10}

D19 == D09 \ {"0"}

DigitVal(c) == (CHOOSE i \in 1..10 : DigitChars[i] = c) - 1

\* str.strip() / \s of the re module, on the characters the model uses
Whitespace == {" ", "\t", "\n", "\r", "\f"}

\* the line boundaries of str.splitlines() among the model's characters
LineBreaks == {"\n", "\r", "\f"}

\* bytes.decode("utf-8", errors="replace") of one byte token
DecodeChar(b) == IF b = "xFF" THEN "uFFFD" ELSE b

Decode(chunk) == [i \in 1..Len(chunk) |-> DecodeChar(chunk[i])]

(***************************************************************************)
(* Text helpers: substring test, str.splitlines, str.split(sep), strip     *)
(***************************************************************************)
OccursAt(s, p, i) == /\ i >= 1
                     /\ i + Len(p) - 1 <= Len(s)
                     /\ \A k \in 1..Len(p) : s[i + k - 1] = p[k]

\* Python: p in s
Contains(s, p) == \E i \in 1..(Len(s) + 1) : OccursAt(s, p, i)

RECURSIVE SplitLinesFrom(_, _, _)
SplitLinesFrom(s, i, cur) ==
    IF i > Len(s)
    THEN (IF cur = <<>> THEN <<>> ELSE <<cur>>)
    ELSE IF s[i] = "\r" /\ i < Len(s) /\ s[i + 1] = "\n"
    THEN <<cur>> \o SplitLinesFrom(s, i + 2, <<>>)
    ELSE IF s[i] \in LineBreaks
    THEN <<cur>> \o SplitLinesFrom(s, i + 1, <<>>)
    ELSE SplitLinesFrom(s, i + 1, Append(cur, s[i]))

\* Python: s.splitlines()
SplitLines(s) == SplitLinesFrom(s, 1, <<>>)

RECURSIVE SplitFrom(_, _, _, _)
SplitFrom(s, sep, i, cur) ==
    IF i > Len(s)
    THEN <<cur>>
    ELSE IF OccursAt(s, sep, i)
    THEN <<cur>> \o SplitFrom(s, sep, i + Len(sep), <<>>)
    ELSE SplitFrom(s, sep, i + 1, Append(cur, s[i]))

\* Python: s.split(sep), sep non-empty
Split(s, sep) == SplitFrom(s, sep, 1, <<>>)

RECURSIVE LStrip(_)
LStrip(s) == IF s # <<>> /\ Head(s) \in Whitespace THEN LStrip(Tail(s)) ELSE s

RECURSIVE RStrip(_)
RStrip(s) == IF s # <<>> /\ s[Len(s)] \in Whitespace
             THEN RStrip(SubSeq(s, 1, Len(s) - 1))
             ELSE s

Strip(s) == RStrip(LStrip(s))

RECURSIVE Join(_, _)
\* Python: sep.join(parts)
Join(parts, sep) ==
    IF parts = <<>> THEN <<>>
    ELSE IF Len(parts) = 1 THEN parts[1]
    ELSE parts[1] \o sep \o Join(Tail(parts), sep)

RECURSIVE Pow10(_)
Pow10(n) == IF n = 0 THEN 1 ELSE 10 * Pow10(n - 1)

RECURSIVE NatStr(_)
\* the decimal digits of a natural number
NatStr(n) == IF n < 10 THEN <<DigitChars[n + 1]>>
             ELSE NatStr(n \div 10) \o <<DigitChars[(n % 10) + 1]>>

RECURSIVE ZeroPad(_, _)
\* format spec 0w: at least w digits, zero filled
ZeroPad(s, w) == IF Len(s) >= w THEN s ELSE ZeroPad(<<"0">> \o s, w)

RECURSIVE DigitsVal(_)
\* int() of a run of digits
DigitsVal(s) == IF s = <<>> THEN 0
                ELSE 10 * DigitsVal(SubSeq(s, 1, Len(s) - 1)) + DigitVal(s[Len(s)])

RECURSIVE DigitRun(_, _)
\* the length of the run of digits of s that starts at index i
DigitRun(s, i) == IF i <= Len(s) /\ s[i] \in D09 THEN 1 + DigitRun(s, i + 1) ELSE 0

(***************************************************************************)
(* datetime.datetime.strptime(line, "%Y/%m/%d %H:%M:%S")                   *)
(*                                                                         *)
(* _strptime turns the format into the regular expression                  *)
(*   (\d\d\d\d)/(1[0-2]|0[1-9]|[1-9])/(3[01]|[12]\d|0[1-9]|[1-9]| [1-9])   *)
(*   \s+(2[0-3]|[01]\d|\d):([0-5]\d|\d):(6[01]|[0-5]\d|\d)                 *)
(* matches it at the start of the line, raises ValueError when it does not *)
(* match or when text remains after the match, and then builds a datetime, *)
(* which raises ValueError for a day or a second out of range.  Every      *)
(* field is followed by a character no alternative of the field can start  *)
(* with, so the first alternative that matches is the one the match uses.  *)
(***************************************************************************)
FieldYear == << <<D09, D09, D09, D09>> >>

FieldMonth == << <<{"1"}, {"0", "1", "2"}>>, <<{"0"}, D19>>, <<D19>> >>

FieldDay == << <<{"3"}, {"0", "1"}>>, <<{"1", "2"}, D09>>, <<{"0"}, D19>>,
               <<D19>>, <<{" "}, D19>> >>

FieldHour == << <<{"2"}, {"0", "1", "2", "3"}>>, <<{"0", "1"}, D09>>, <<D09>> >>

FieldMinute == << <<{"0", "1", "2", "3", "4", "5"}, D09>>, <<D09>> >>

FieldSecond == << <<{"6"}, {"0", "1"}>>, <<{"0", "1", "2", "3", "4", "5"}, D09>>,
                  <<D09>> >>

MatchAlt(s, i, alt) == /\ i + Len(alt) - 1 <= Len(s)
                       /\ \A k \in 1..Len(alt) : s[i + k - 1] \in alt[k]

\* the length of the first alternative of alts that matches s at i, 0 if none
FirstAlt(s, i, alts) ==
    LET ok == {k \in 1..Len(alts) : MatchAlt(s, i, alts[k])}
    IN  IF ok = {} THEN 0
        ELSE Len(alts[CHOOSE k \in ok : \A j \in ok : k <= j])

RECURSIVE WsRun(_, _)
WsRun(s, i) == IF i <= Len(s) /\ s[i] \in Whitespace THEN 1 + WsRun(s, i + 1) ELSE 0

CharAt(s, i, c) == i <= Len(s) /\ s[i] = c

IsLeap(y) == (y % 4 = 0 /\ y % 100 # 0) \/ y % 400 = 0

DaysInMonth(y, m) == IF m = 2 THEN (IF IsLeap(y) THEN 29 ELSE 28)
                     ELSE IF m \in {4, 6, 9, 11} THEN 30 ELSE 31

ValueError == [ok |-> FALSE]

\* datetime(Y, m, d, H, M, S): ValueError for a date or a second out of range
MakeDateTime(Y, mo, d, H, M, S) ==
    IF Y < 1 \/ d > DaysInMonth(Y, mo) \/ S > 59 THEN ValueError
    ELSE [ok |-> TRUE,
          val |-> [Y |-> Y, m |-> mo, d |-> d, H |-> H, M |-> M, S |-> S]]

\* the field at p and what must follow it; each step hands on the next position
StrpSecond(s, p, Y, mo, d, H, M) ==
    LET n == FirstAlt(s, p, FieldSecond)
    IN  IF n = 0 \/ p + n # Len(s) + 1 THEN ValueError
        ELSE MakeDateTime(Y, mo, d, H, M, DigitsVal(SubSeq(s, p, p + n - 1)))

StrpMinute(s, p, Y, mo, d, H) ==
    LET n == FirstAlt(s, p, FieldMinute)
    IN  IF n = 0 \/ ~CharAt(s, p + n, ":") THEN ValueError
        ELSE StrpSecond(s, p + n + 1, Y, mo, d, H, DigitsVal(SubSeq(s, p, p + n - 1)))

StrpHour(s, p, Y, mo, d) ==
    LET n == FirstAlt(s, p, FieldHour)
    IN  IF n = 0 \/ ~CharAt(s, p + n, ":") THEN ValueError
        ELSE StrpMinute(s, p + n + 1, Y, mo, d, DigitsVal(SubSeq(s, p, p + n - 1)))

StrpSpace(s, p, Y, mo, d) ==
    LET w == WsRun(s, p)
    IN  IF w = 0 THEN ValueError ELSE StrpHour(s, p + w, Y, mo, d)

StrpDay(s, p, Y, mo) ==
    LET n == FirstAlt(s, p, FieldDay)
    IN  IF n = 0 THEN ValueError
        ELSE StrpSpace(s, p + n, Y, mo, DigitsVal(Strip(SubSeq(s, p, p + n - 1))))

StrpMonth(s, p, Y) ==
    LET n == FirstAlt(s, p, FieldMonth)
    IN  IF n = 0 \/ ~CharAt(s, p + n, "/") THEN ValueError
        ELSE StrpDay(s, p + n + 1, Y, DigitsVal(SubSeq(s, p, p + n - 1)))

StrpTime(s) ==
    LET n == FirstAlt(s, 1, FieldYear)
    IN  IF n = 0 \/ ~CharAt(s, 1 + n, "/") THEN ValueError
        ELSE StrpMonth(s, n + 2, DigitsVal(SubSeq(s, 1, n)))

Str(c) == <<c>>

\* t.strftime("%Y/%m/%d %H:%M:%S"), for years of four digits
StrfTime(t) ==
    ZeroPad(NatStr(t.Y), 4) \o Str("/") \o ZeroPad(NatStr(t.m), 2) \o Str("/")
    \o ZeroPad(NatStr(t.d), 2) \o Str(" ") \o ZeroPad(NatStr(t.H), 2) \o Str(":")
    \o ZeroPad(NatStr(t.M), 2) \o Str(":") \o ZeroPad(NatStr(t.S), 2)

(***************************************************************************)
(* float(val_str) and str(val)                                             *)
(*                                                                         *)
(* A float is kept as the decimal it denotes: (-1)^neg * m * 10^e with m   *)
(* not a multiple of ten (0 is m = 0, e = 0).  float() strips whitespace   *)
(* and takes [sign] digits [. digits] [e|E [sign] digits] with a digit in  *)
(* the mantissa; the model's characters cannot spell inf, nan or a digit   *)
(* group with underscores.                                                 *)
(***************************************************************************)
RECURSIVE Normalize(_, _, _)
Normalize(neg, m, e) ==
    IF m = 0 THEN [kind |-> "float", neg |-> neg, m |-> 0, e |-> 0]
    ELSE IF m % 10 = 0 THEN Normalize(neg, m \div 10, e + 1)
    ELSE [kind |-> "float", neg |-> neg, m |-> m, e |-> e]

IsSign(s, i) == i <= Len(s) /\ s[i] \in {"+", "-"}

\* the exponent part at i (the text must end with it)
FloatExponent(s, i, neg, mant, fp) ==
    IF i = Len(s) + 1 THEN [ok |-> TRUE, val |-> Normalize(neg, mant, -fp)]
    ELSE IF s[i] \notin {"e", "E"} THEN ValueError
    ELSE LET j == IF IsSign(s, i + 1) THEN i + 2 ELSE i + 1
             n == DigitRun(s, j)
         IN  IF n = 0 \/ j + n # Len(s) + 1 THEN ValueError
             ELSE [ok |-> TRUE,
                   val |-> Normalize(neg, mant,
                               (IF CharAt(s, i + 1, "-") THEN -1 ELSE 1)
                                   * DigitsVal(SubSeq(s, j, j + n - 1)) - fp)]

\* the fraction after the point at i - 1; ip digits came before the point
FloatFraction(s, i, neg, ip, whole) ==
    LET fp == DigitRun(s, i)
    IN  IF ip + fp = 0 THEN ValueError
        ELSE FloatExponent(s, i + fp, neg,
                           DigitsVal(whole \o SubSeq(s, i, i + fp - 1)), fp)

\* the digits at i
FloatMantissa(s, i, neg) ==
    LET ip == DigitRun(s, i)
    IN  IF CharAt(s, i + ip, ".")
        THEN FloatFraction(s, i + ip + 1, neg, ip, SubSeq(s, i, i + ip - 1))
        ELSE IF ip = 0 THEN ValueError
        ELSE FloatExponent(s, i + ip, neg, DigitsVal(SubSeq(s, i, i + ip - 1)), 0)

FloatStripped(s) ==
    IF IsSign(s, 1) THEN FloatMantissa(s, 2, s[1] = "-") ELSE FloatMantissa(s, 1, FALSE)

Float(s0) == FloatStripped(Strip(s0))

RECURSIVE Zeros(_)
Zeros(n) == IF n <= 0 THEN <<>> ELSE <<"0">> \o Zeros(n - 1)

\* str(val) of a float: float.__repr__, positional for 1e-4 <= |val| < 1e16
FloatDigits(ds, e) ==
    IF e >= 0 THEN ds \o Zeros(e) \o <<".", "0">>
    ELSE IF Len(ds) + e > 0
    THEN SubSeq(ds, 1, Len(ds) + e) \o <<".">> \o SubSeq(ds, Len(ds) + e + 1, Len(ds))
    ELSE <<"0", ".">> \o Zeros(-(Len(ds) + e)) \o ds

\* x is the decimal exponent of the first digit
FloatScientific(ds, x) ==
    <<ds[1]>> \o (IF Len(ds) > 1 THEN <<".">> \o SubSeq(ds, 2, Len(ds)) ELSE <<>>)
    \o <<"e", IF x < 0 THEN "-" ELSE "+">>
    \o ZeroPad(NatStr(IF x < 0 THEN -x ELSE x), 2)

FloatBody(ds, e) ==
    IF e + Len(ds) - 1 < -4 \/ e + Len(ds) - 1 >= 16
    THEN FloatScientific(ds, e + Len(ds) - 1)
    ELSE FloatDigits(ds, e)

FloatStr(v) ==
    (IF v.neg THEN <<"-">> ELSE <<>>)
    \o (IF v.m = 0 THEN <<"0", ".", "0">> ELSE FloatBody(NatStr(v.m), v.e))

\* Python's None in a channel slot
None == [kind |-> "None"]

(***************************************************************************)
(* The frame parser: lines 75-93 of _run                                   *)
(***************************************************************************)
\* the separator of line.split("  ")
FieldSep == <<" ", " ">>

\* ChannelSlot with "continue" in place of line 93: a value that is not a
\* number is skipped
ChannelSlotSkips(line) ==
    LET parts == Split(line, FieldSep)
    IN  IF Len(parts) = 2
        THEN LET val == Float(parts[2])
             IN  IF val.ok THEN <<val.val>> ELSE <<>>
        ELSE <<>>

\* lines 86-93: what one line after the timestamp adds to ret["data"]
ChannelSlot(line) ==
    LET parts == Split(line, FieldSep)
    IN  IF Len(parts) = 2
        THEN LET val == Float(parts[2])
             IN  IF val.ok THEN <<val.val>> ELSE <<None>>
        ELSE <<>>

RECURSIVE ChannelData(_)
\* lines 84-93: the loop over lines[1:]
ChannelData(ls) == IF ls = <<>> THEN <<>>
                   ELSE ChannelSlot(Head(ls)) \o ChannelData(Tail(ls))

\* lines 75-93: [ok |-> FALSE] is one of the two "continue" exits
ParseFrame(buffer) ==
    LET lines == SplitLines(buffer)
    IN  IF Len(lines) < 2 THEN [ok |-> FALSE]
        ELSE LET tm == StrpTime(lines[1])
             IN  IF ~tm.ok THEN [ok |-> FALSE]
                 ELSE [ok |-> TRUE,
                       ret |-> [time |-> tm.val, data |-> ChannelData(Tail(lines))]]

\* line 53: "END" and seven spaces (the literal holds no newline)
terminator == <<"E", "N", "D", " ", " ", " ", " ", " ", " ", " ">>


(***************************************************************************)
(* Bounds and the device's frames                                          *)
(***************************************************************************)
\* poll threads that may exist at once
MaxThreads == 2

\* socket objects that may exist at once
MaxSockets == 2

\* poll requests the device answers in one run
MaxFrames == 2

\* readings handed to update_data in one run of the store specification
MaxPublishes == 2

\* log files the front end may name
MaxPaths == 1

\* line 57: recv(1024)
RecvSize == 1024

Threads == 1..MaxThreads

SockIds == 1..MaxSockets

Paths == 1..MaxPaths

\* the owner of the lock when a front-end call holds it
FrontEnd == -1

NL == "\n"

TimeLine1 == <<"2", "0", "2", "4", "/", "1", "/", "2", " ", "3", ":", "4", ":", "5">>

TimeLine2 == <<"2", "0", "2", "4", "/", "0", "1", "/", "0", "2", " ",
               "0", "3", ":", "0", "4", ":", "0", "6">>

EndLine == terminator \o <<NL>>

\* a timestamp, a numeric channel, a non-numeric channel (an undecodable byte)
FrameTwoChannels ==
    TimeLine1 \o <<NL>> \o <<"M", " ", " ", "1", ".", "5", NL>>
    \o <<"M", " ", " ", "xFF", NL>> \o EndLine

\* a timestamp, a line with a single space (no slot), a numeric channel
FrameOneChannel ==
    TimeLine2 \o <<NL>> \o <<"M", " ", "7", NL>> \o <<"M", " ", " ", "-", "2", NL>>
    \o EndLine

\* a timestamp and an empty data section
FrameNoChannels == TimeLine1 \o <<NL>> \o EndLine

\* "END" with fewer than seven spaces inside the frame, then the terminator
FrameShortEnd ==
    TimeLine2 \o <<NL>> \o <<"E", "N", "D", " ", " ", " ", NL>>
    \o <<"M", " ", " ", "3", NL>> \o EndLine

\* a first line that is no timestamp
FrameBadTime == <<"x", NL>> \o <<"M", " ", " ", "1", NL>> \o EndLine

\* the terminator line alone: fewer than two lines
FrameOnlyEnd == EndLine

Frames == {FrameTwoChannels, FrameOneChannel, FrameNoChannels, FrameShortEnd,
           FrameBadTime, FrameOnlyEnd}

\* a timestamp and four numeric channels
FrameFourChannels ==
    TimeLine2 \o <<NL>> \o <<"M", " ", " ", "1", NL>> \o <<"M", " ", " ", "2", NL>>
    \o <<"M", " ", " ", "0", ".", "5", NL>> \o <<"M", " ", " ", "1", "E", "2", NL>>
    \o EndLine

\* the frames behind the readings handed to the store
StoreFrames == {FrameFourChannels, FrameTwoChannels, FrameNoChannels}

\* the device's answers where the claim is about start() and stop()
ShortFrames == {FrameNoChannels, FrameOnlyEnd}

(***************************************************************************)
(* State                                                                   *)
(***************************************************************************)
VARIABLES
    running,          \* TDS530DataCollector._running
    thread,           \* TDS530DataCollector._thread: 0 (None) or a thread
    sock,             \* TDS530DataCollector._socket: 0 (None) or a socket
    tpc,              \* where each poll thread is in _run / update_data
    received_buffer,  \* _run's local received_buffer, per thread
    ret,              \* _run's local ret, per thread
    cpc,              \* where the caller of start() / stop() is
    sockets,          \* the socket objects: state, unread bytes, peer
    sent,             \* how many poll requests the device has answered
    callback_failed,  \* line 101 has caught an exception of the callback
    latest_data,      \* TDS530Api.latest_data
    lock,             \* TDS530Api._lock: 0 (free) or its owner
    save_file,        \* TDS530Api._save_file: 0 (None) or the path it is open on
    header_written,   \* TDS530Api._header_written
    files,            \* what has been written to each path, one entry per write()
    fpc,              \* where the front-end caller is
    fres,             \* what the last front-end call returned
    completed,        \* the reading of the last update_data call that returned
    logged            \* the readings stored while a log was attached, since the
                      \* attach; Lost in place of one whose write raised

collectorVars == <<running, thread, sock, tpc, received_buffer, ret, cpc, sockets, sent,
                   callback_failed>>

collectorVarsButPc == <<running, thread, sock, received_buffer, ret, cpc, sockets, sent,
                        callback_failed>>

apiVars == <<latest_data, lock, save_file, header_written, files, fpc, fres,
             completed, logged>>

vars == <<running, thread, sock, tpc, received_buffer, ret, cpc, sockets, sent,
          callback_failed,
          latest_data, lock, save_file, header_written, files, fpc, fres,
          completed, logged>>

\* ret = {} (line 48) and latest_data = {} (line 120)
EmptyDict == [time |-> [Y |-> 0, m |-> 0, d |-> 0, H |-> 0, M |-> 0, S |-> 0],
              data |-> <<>>, empty |-> TRUE]

\* Reading with a dict that is falsy when its channel list is empty
ReadingFalsyWithoutData(r) == [time |-> r.time, data |-> r.data, empty |-> r.data = <<>>]

\* the dict built at lines 82 and 93: two keys, so it is truthy
Reading(r) == [time |-> r.time, data |-> r.data, empty |-> FALSE]

NoSocket == [st |-> "none", inbox |-> <<>>, req |-> 0, peer |-> "up"]

NewSocket == [st |-> "open", inbox |-> <<>>, req |-> 0, peer |-> "up"]

ClosedSocket == [st |-> "closed", inbox |-> <<>>, req |-> 0, peer |-> "up"]

\* an entry of logged whose write raised
Lost == EmptyDict

NoResult == [op |-> "none"]

\* lines 12-18 and 119-123: the objects as constructed; start() finds one
\* Thread object to create at a time (a thread marked unused is never made)
Init ==
    /\ running = FALSE
    /\ thread = 0
    /\ sock = 0
    /\ tpc = [t \in Threads |-> IF t = 1 THEN "unborn" ELSE "unused"]
    /\ received_buffer = [t \in Threads |-> <<>>]
    /\ ret = [t \in Threads |-> EmptyDict]
    /\ cpc = "idle"
    /\ sockets = [s \in SockIds |-> NoSocket]
    /\ sent = 0
    /\ callback_failed = FALSE
    /\ latest_data = EmptyDict
    /\ lock = 0
    /\ save_file = 0
    /\ header_written = FALSE
    /\ files = [p \in Paths |-> <<>>]
    /\ fpc = "idle"
    /\ fres = NoResult
    /\ completed = EmptyDict
    /\ logged = <<>>

Goto(t, l) == tpc' = [tpc EXCEPT ![t] = l]

\* socket.close(): the object stays, closed; unread bytes are dropped
CloseSocket(s) ==
    sockets' = [sockets EXCEPT ![s] = [ClosedSocket EXCEPT !.peer = sockets[s].peer]]

\* line 43 drops the last reference to the socket _socket named before: the
\* interpreter closes an open socket nothing refers to, at a time of its own
CollectSocket(s) ==
    /\ s # sock
    /\ sockets[s].st \in {"open", "conn"}
    /\ CloseSocket(s)
    /\ UNCHANGED <<running, thread, sock, tpc, received_buffer, ret, cpc, sent, callback_failed>>
    /\ UNCHANGED apiVars

(***************************************************************************)
(* TDS530DataCollector.start and stop, called by the front end             *)
(***************************************************************************)
\* a call of start() begins
CallStart ==
    /\ cpc \in {"idle", "stopped"}
    /\ cpc' = "a22"
    /\ UNCHANGED <<running, thread, sock, tpc, received_buffer, ret, sockets, sent, callback_failed>>
    /\ UNCHANGED apiVars

\* line 22-23
StartCheck ==
    /\ cpc = "a22"
    /\ cpc' = IF running THEN "idle" ELSE "a24"
    /\ UNCHANGED <<running, thread, sock, tpc, received_buffer, ret, sockets, sent, callback_failed>>
    /\ UNCHANGED apiVars

\* line 24
StartSetRunning ==
    /\ cpc = "a24"
    /\ running' = TRUE
    /\ cpc' = "a25"
    /\ UNCHANGED <<thread, sock, tpc, received_buffer, ret, sockets, sent, callback_failed>>
    /\ UNCHANGED apiVars

FreeThreads == {t \in Threads : tpc[t] \in {"unborn", "dead"}}

\* line 25: a new Thread object
StartCreateThread ==
    /\ cpc = "a25"
    /\ FreeThreads # {}
    /\ LET t == CHOOSE x \in FreeThreads : \A y \in FreeThreads : x <= y
       IN  /\ thread' = t
           /\ tpc' = [tpc EXCEPT ![t] = "created"]
           /\ received_buffer' = [received_buffer EXCEPT ![t] = <<>>]
           /\ ret' = [ret EXCEPT ![t] = EmptyDict]
    /\ cpc' = "a26"
    /\ UNCHANGED <<running, sock, sockets, sent, callback_failed>>
    /\ UNCHANGED apiVars

\* line 26
StartThread ==
    /\ cpc = "a26"
    /\ tpc' = [tpc EXCEPT ![thread] = "l41"]
    /\ cpc' = "idle"
    /\ UNCHANGED <<running, thread, sock, received_buffer, ret, sockets, sent, callback_failed>>
    /\ UNCHANGED apiVars

\* a call of stop() begins
CallStop ==
    /\ cpc \in {"idle", "stopped"}
    /\ cpc' = "s30"
    /\ UNCHANGED <<running, thread, sock, tpc, received_buffer, ret, sockets, sent, callback_failed>>
    /\ UNCHANGED apiVars

\* line 30
StopClearRunning ==
    /\ cpc = "s30"
    /\ running' = FALSE
    /\ cpc' = "s31"
    /\ UNCHANGED <<thread, sock, tpc, received_buffer, ret, sockets, sent, callback_failed>>
    /\ UNCHANGED apiVars

\* line 31
StopTestSocket ==
    /\ cpc = "s31"
    /\ cpc' = IF sock # 0 THEN "s33" ELSE "s36"
    /\ UNCHANGED <<running, thread, sock, tpc, received_buffer, ret, sockets, sent, callback_failed>>
    /\ UNCHANGED apiVars

\* lines 32-35: _socket may have become None since line 31 (AttributeError, swallowed)
StopCloseSocket ==
    /\ cpc = "s33"
    /\ IF sock # 0 THEN CloseSocket(sock) ELSE UNCHANGED sockets
    /\ cpc' = "s36"
    /\ UNCHANGED <<running, thread, sock, tpc, received_buffer, ret, sent, callback_failed>>
    /\ UNCHANGED apiVars

IsAlive(t) == tpc[t] \notin {"unused", "unborn", "created", "dead"}

\* line 36
StopTestThread ==
    /\ cpc = "s36"
    /\ cpc' = IF thread # 0 /\ IsAlive(thread) THEN "s37" ELSE "stopped"
    /\ UNCHANGED <<running, thread, sock, tpc, received_buffer, ret, sockets, sent, callback_failed>>
    /\ UNCHANGED apiVars

\* line 37: join returns because the thread has ended
StopJoined ==
    /\ cpc = "s37"
    /\ ~IsAlive(thread)
    /\ cpc' = "stopped"
    /\ UNCHANGED <<running, thread, sock, tpc, received_buffer, ret, sockets, sent, callback_failed>>
    /\ UNCHANGED apiVars

\* line 37: join(timeout=2.0) gives up while the thread is still alive
StopJoinTimeout ==
    /\ cpc = "s37"
    /\ IsAlive(thread)
    /\ cpc' = "stopped"
    /\ UNCHANGED <<running, thread, sock, tpc, received_buffer, ret, sockets, sent, callback_failed>>
    /\ UNCHANGED apiVars


(***************************************************************************)
(* TDS530DataCollector._run, one action per statement that reads or writes *)
(* shared state.  A call on self._socket reads the attribute and acts on   *)
(* the object in one step; on None it raises AttributeError.               *)
(***************************************************************************)
\* line 41: while self._running (the thread ends when it is false)
LoopTest(t) ==
    /\ tpc[t] = "l41"
    /\ Goto(t, IF running THEN "l43" ELSE "dead")
    /\ UNCHANGED <<running, thread, sock, received_buffer, ret, cpc, sockets, sent, callback_failed>>
    /\ UNCHANGED apiVars

\* a socket object nothing refers to any more can be forgotten
FreeSockets == {s \in SockIds : sockets[s].st \in {"none", "closed"} /\ s # sock}

\* lines 43-44: socket.socket(...) and settimeout(2.0)
CreateSocket(t) ==
    /\ tpc[t] = "l43"
    /\ FreeSockets # {}
    /\ LET s == CHOOSE x \in FreeSockets : \A y \in FreeSockets : x <= y
       IN  /\ sock' = s
           /\ sockets' = [sockets EXCEPT ![s] = NewSocket]
    /\ Goto(t, "l45")
    /\ UNCHANGED <<running, thread, received_buffer, ret, cpc, sent, callback_failed>>
    /\ UNCHANGED apiVars

\* line 43: socket.socket(...) raises OSError (no descriptor left)
CreateSocketFails(t) ==
    /\ tpc[t] = "l43"
    /\ Goto(t, "l104")
    /\ UNCHANGED <<running, thread, sock, received_buffer, ret, cpc, sockets, sent, callback_failed>>
    /\ UNCHANGED apiVars

\* line 45: connect succeeds
Connect(t) ==
    /\ tpc[t] = "l45"
    /\ sock # 0
    /\ sockets[sock].st = "open"
    /\ sockets' = [sockets EXCEPT ![sock].st = "conn"]
    /\ Goto(t, "l47")
    /\ UNCHANGED <<running, thread, sock, received_buffer, ret, cpc, sent, callback_failed>>
    /\ UNCHANGED apiVars

\* ConnectFails without the except clause of line 98: the exception ends the
\* thread
ConnectFailsUncaught(t) ==
    /\ tpc[t] = "l45"
    /\ Goto(t, "dead")
    /\ UNCHANGED <<running, thread, sock, received_buffer, ret, cpc, sockets, sent, callback_failed>>
    /\ UNCHANGED apiVars

\* line 45: connect raises (refused, timed out, the socket was closed or is
\* already connected, _socket is None): lines 98-102 catch it
ConnectFails(t) ==
    /\ tpc[t] = "l45"
    /\ Goto(t, "l104")
    /\ UNCHANGED <<running, thread, sock, received_buffer, ret, cpc, sockets, sent, callback_failed>>
    /\ UNCHANGED apiVars

\* line 47: while self._running (leaving the loop runs the finally clause)
SessionTest(t) ==
    /\ tpc[t] = "l47"
    /\ Goto(t, IF running THEN "l50" ELSE "l104")
    /\ UNCHANGED <<running, thread, sock, received_buffer, ret, cpc, sockets, sent, callback_failed>>
    /\ UNCHANGED apiVars

CanSend == sock # 0 /\ sockets[sock].st = "conn" /\ sockets[sock].peer # "rst"

\* lines 48-52: ret = {}, sendall("ST\r\n"), received_buffer = ""
SendRequest(t) ==
    /\ tpc[t] = "l50"
    /\ CanSend
    /\ sockets' = [sockets EXCEPT ![sock].req =
                       IF sockets[sock].peer = "up" THEN @ + 1 ELSE @]
    /\ ret' = [ret EXCEPT ![t] = EmptyDict]
    /\ received_buffer' = [received_buffer EXCEPT ![t] = <<>>]
    /\ Goto(t, "l55")
    /\ UNCHANGED <<running, thread, sock, cpc, sent, callback_failed>>
    /\ UNCHANGED apiVars

\* lines 48-50: sendall raises (closed, reset or unconnected socket, None)
SendFails(t) ==
    /\ tpc[t] = "l50"
    /\ ~CanSend
    /\ ret' = [ret EXCEPT ![t] = EmptyDict]
    /\ Goto(t, "l104")
    /\ UNCHANGED <<running, thread, sock, received_buffer, cpc, sockets, sent, callback_failed>>
    /\ UNCHANGED apiVars

\* line 55: while self._running
ReadTest(t) ==
    /\ tpc[t] = "l55"
    /\ Goto(t, IF running THEN "l57" ELSE "l69")
    /\ UNCHANGED <<running, thread, sock, received_buffer, ret, cpc, sockets, sent, callback_failed>>
    /\ UNCHANGED apiVars

CanRecv == sock # 0 /\ sockets[sock].st = "conn" /\ sockets[sock].peer # "rst"

Min(a, b) == IF a <= b THEN a ELSE b

\* lines 57-67: recv returns k bytes; decode, append, look for the terminator
RecvChunk(t) ==
    /\ tpc[t] = "l57"
    /\ CanRecv
    /\ \E k \in 1..Min(RecvSize, Len(sockets[sock].inbox)) :
         LET chunk == SubSeq(sockets[sock].inbox, 1, k)
             buf   == received_buffer[t] \o Decode(chunk)
         IN  /\ sockets' = [sockets EXCEPT ![sock].inbox =
                                SubSeq(@, k + 1, Len(@))]
             /\ received_buffer' = [received_buffer EXCEPT ![t] = buf]
             /\ Goto(t, IF Contains(buf, terminator) THEN "l69" ELSE "l55")
    /\ UNCHANGED <<running, thread, sock, ret, cpc, sent, callback_failed>>
    /\ UNCHANGED apiVars

\* RecvTimeout with the timeout handled as a failure of the session
RecvTimeoutFails(t) ==
    /\ tpc[t] = "l57"
    /\ CanRecv
    /\ sockets[sock].peer = "up"
    /\ Goto(t, "l104")
    /\ UNCHANGED <<running, thread, sock, received_buffer, ret, cpc, sockets, sent, callback_failed>>
    /\ UNCHANGED apiVars

\* lines 58-59: nothing arrived within the timeout: continue
RecvTimeout(t) ==
    /\ tpc[t] = "l57"
    /\ CanRecv
    /\ sockets[sock].peer = "up"
    /\ Goto(t, "l55")
    /\ UNCHANGED <<running, thread, sock, received_buffer, ret, cpc, sockets, sent, callback_failed>>
    /\ UNCHANGED apiVars

\* lines 60-61: recv raises something else (reset by the peer, a closed or
\* unconnected socket, None): break
RecvError(t) ==
    /\ tpc[t] = "l57"
    /\ ~CanRecv
    /\ Goto(t, "l69")
    /\ UNCHANGED <<running, thread, sock, received_buffer, ret, cpc, sockets, sent, callback_failed>>
    /\ UNCHANGED apiVars

\* lines 62-63: a zero-length read raises ConnectionError out of the session
RecvClosed(t) ==
    /\ tpc[t] = "l57"
    /\ CanRecv
    /\ sockets[sock].peer = "fin"
    /\ sockets[sock].inbox = <<>>
    /\ Goto(t, "l104")
    /\ UNCHANGED <<running, thread, sock, received_buffer, ret, cpc, sockets, sent, callback_failed>>
    /\ UNCHANGED apiVars

\* lines 69-70: if not self._running: break
AfterRead(t) ==
    /\ tpc[t] = "l69"
    /\ Goto(t, IF running THEN "l75" ELSE "l104")
    /\ UNCHANGED <<running, thread, sock, received_buffer, ret, cpc, sockets, sent, callback_failed>>
    /\ UNCHANGED apiVars

\* Parse with "raise" in place of the two "continue": a frame that does not
\* parse ends the session
ParseTearsDown(t) ==
    /\ tpc[t] = "l75"
    /\ LET p == ParseFrame(received_buffer[t])
       IN  IF p.ok
           THEN ret' = [ret EXCEPT ![t] = Reading(p.ret)] /\ Goto(t, "l95")
           ELSE UNCHANGED ret /\ Goto(t, "l104")
    /\ UNCHANGED <<running, thread, sock, received_buffer, cpc, sockets, sent, callback_failed>>
    /\ UNCHANGED apiVars

\* lines 75-93: parse; the two "continue" go back to line 47
Parse(t) ==
    /\ tpc[t] = "l75"
    /\ LET p == ParseFrame(received_buffer[t])
       IN  IF p.ok
           THEN ret' = [ret EXCEPT ![t] = Reading(p.ret)] /\ Goto(t, "l95")
           ELSE UNCHANGED ret /\ Goto(t, "l47")
    /\ UNCHANGED <<running, thread, sock, received_buffer, cpc, sockets, sent, callback_failed>>
    /\ UNCHANGED apiVars

\* lines 95-96: the callback (main wires api.update_data) is called
InvokeCallback(t) ==
    /\ tpc[t] = "l95"
    /\ Goto(t, "u127")
    /\ UNCHANGED <<running, thread, sock, received_buffer, ret, cpc, sockets, sent, callback_failed>>
    /\ UNCHANGED apiVars

\* CallbackRaises without the except clause of line 101: the exception ends
\* the thread
CallbackRaisesUncaught(t) ==
    /\ tpc[t] = "l95"
    /\ Goto(t, "dead")
    /\ callback_failed' = TRUE
    /\ UNCHANGED <<running, thread, sock, received_buffer, ret, cpc, sockets, sent>>
    /\ UNCHANGED apiVars

\* line 96: a callback that raises; line 101 catches it
CallbackRaises(t) ==
    /\ tpc[t] = "l95"
    /\ Goto(t, "l104")
    /\ callback_failed' = TRUE
    /\ UNCHANGED <<running, thread, sock, received_buffer, ret, cpc, sockets, sent>>
    /\ UNCHANGED apiVars

\* line 104: finally: if self._socket
FinallyTest(t) ==
    /\ tpc[t] = "l104"
    /\ Goto(t, IF sock # 0 THEN "l106" ELSE "l112")
    /\ UNCHANGED <<running, thread, sock, received_buffer, ret, cpc, sockets, sent, callback_failed>>
    /\ UNCHANGED apiVars

\* lines 105-108: close (on None: AttributeError, swallowed)
FinallyClose(t) ==
    /\ tpc[t] = "l106"
    /\ IF sock # 0 THEN CloseSocket(sock) ELSE UNCHANGED sockets
    /\ Goto(t, "l109")
    /\ UNCHANGED <<running, thread, sock, received_buffer, ret, cpc, sent, callback_failed>>
    /\ UNCHANGED apiVars

\* line 109
FinallyClear(t) ==
    /\ tpc[t] = "l109"
    /\ sock' = 0
    /\ Goto(t, "l112")
    /\ UNCHANGED <<running, thread, received_buffer, ret, cpc, sockets, sent, callback_failed>>
    /\ UNCHANGED apiVars

\* line 112: if self._running: sleep
BackoffTest(t) ==
    /\ tpc[t] = "l112"
    /\ Goto(t, IF running THEN "l113" ELSE "l41")
    /\ UNCHANGED <<running, thread, sock, received_buffer, ret, cpc, sockets, sent, callback_failed>>
    /\ UNCHANGED apiVars

\* line 113: time.sleep(1.0) is over
BackoffDone(t) ==
    /\ tpc[t] = "l113"
    /\ Goto(t, "l41")
    /\ UNCHANGED <<running, thread, sock, received_buffer, ret, cpc, sockets, sent, callback_failed>>
    /\ UNCHANGED apiVars

(***************************************************************************)
(* The device: answers a poll request with a frame; may close or reset     *)
(***************************************************************************)
DeviceReply(s, menu) ==
    /\ sockets[s].st = "conn"
    /\ sockets[s].peer = "up"
    /\ sockets[s].req > 0
    /\ sent < MaxFrames
    /\ \E f \in menu :
         sockets' = [sockets EXCEPT ![s].inbox = @ \o f, ![s].req = @ - 1]
    /\ sent' = sent + 1
    /\ UNCHANGED <<running, thread, sock, tpc, received_buffer, ret, cpc, callback_failed>>
    /\ UNCHANGED apiVars

\* the device closes its end: what it sent can still be read, then b""
DeviceClose(s) ==
    /\ sockets[s].st = "conn"
    /\ sockets[s].peer = "up"
    /\ sockets' = [sockets EXCEPT ![s].peer = "fin", ![s].req = 0]
    /\ UNCHANGED <<running, thread, sock, tpc, received_buffer, ret, cpc, sent, callback_failed>>
    /\ UNCHANGED apiVars

\* the connection is reset: unread bytes are lost, recv and sendall raise
DeviceReset(s) ==
    /\ sockets[s].st = "conn"
    /\ sockets[s].peer = "up"
    /\ sockets' = [sockets EXCEPT ![s].peer = "rst", ![s].req = 0, ![s].inbox = <<>>]
    /\ UNCHANGED <<running, thread, sock, tpc, received_buffer, ret, cpc, sent, callback_failed>>
    /\ UNCHANGED apiVars


(***************************************************************************)
(* TDS530Api.update_data and _write_data_to_file, run by the poll thread   *)
(***************************************************************************)
TimeColumn == <<"T", "i", "m", "e">>

\* f"CH{idx:03}"
ChannelColumn(idx) == <<"C", "H">> \o ZeroPad(NatStr(idx), 3)

\* line 143: range(len(data["data"])) counts from 0
HeaderLine(data) ==
    Join(<<TimeColumn>> \o [i \in 1..Len(data.data) |-> ChannelColumn(i - 1)],
         <<"\t">>) \o <<NL>>

\* line 148: str(val) if val is not None else ""
ValueStr(val) == IF val.kind = "None" THEN <<>> ELSE FloatStr(val)

\* lines 147-149
DataLine(data) ==
    Join(<<StrfTime(data.time)>> \o [i \in 1..Len(data.data) |-> ValueStr(data.data[i])],
         <<"\t">>) \o <<NL>>

\* ReturnFromUpdate with the lock kept: the poll loop goes on holding it
ReturnFromUpdateKeepsLock(t) ==
    /\ lock' = lock
    /\ completed' = ret[t]
    /\ Goto(t, "l47")

\* the end of "with self._lock" in update_data: the call returns to line 96
ReturnFromUpdate(t) ==
    /\ lock' = 0
    /\ completed' = ret[t]
    /\ Goto(t, "l47")

\* UpdateAcquire without the lock: update_data runs whoever holds it
UpdateAcquireNoLock(t) ==
    /\ tpc[t] = "u127"
    /\ lock' = t
    /\ Goto(t, "u128")
    /\ UNCHANGED collectorVarsButPc
    /\ UNCHANGED <<latest_data, save_file, header_written, files, fpc, fres,
                   completed, logged>>

\* line 127: with self._lock
UpdateAcquire(t) ==
    /\ tpc[t] = "u127"
    /\ lock = 0
    /\ lock' = t
    /\ Goto(t, "u128")
    /\ UNCHANGED collectorVarsButPc
    /\ UNCHANGED <<latest_data, save_file, header_written, files, fpc, fres,
                   completed, logged>>

\* line 128: self.latest_data = data
UpdateStore(t) ==
    /\ tpc[t] = "u128"
    /\ latest_data' = ret[t]
    /\ logged' = IF save_file # 0 THEN Append(logged, ret[t]) ELSE logged
    /\ Goto(t, "u131")
    /\ UNCHANGED collectorVarsButPc
    /\ UNCHANGED <<lock, save_file, header_written, files, fpc, fres, completed>>

\* line 131: no file attached: update_data returns
UpdateNoFile(t) ==
    /\ tpc[t] = "u131"
    /\ save_file = 0
    /\ ReturnFromUpdate(t)
    /\ UNCHANGED collectorVarsButPc
    /\ UNCHANGED <<latest_data, save_file, header_written, files, fpc, fres, logged>>

\* lines 131-133 and 139: a file is attached: _write_data_to_file is entered
UpdateToFile(t) ==
    /\ tpc[t] = "u131"
    /\ save_file # 0
    /\ Goto(t, "w142")
    /\ UNCHANGED collectorVarsButPc
    /\ UNCHANGED apiVars

\* lines 142-144: the header is written
WriteHeader(t) ==
    /\ tpc[t] = "w142"
    /\ ~header_written
    /\ files' = [files EXCEPT ![save_file] = Append(@, HeaderLine(ret[t]))]
    /\ Goto(t, "w145")
    /\ UNCHANGED collectorVarsButPc
    /\ UNCHANGED <<latest_data, lock, save_file, header_written, fpc, fres,
                   completed, logged>>

\* line 142: the header is there already
SkipHeader(t) ==
    /\ tpc[t] = "w142"
    /\ header_written
    /\ Goto(t, "w147")
    /\ UNCHANGED collectorVarsButPc
    /\ UNCHANGED apiVars

\* SetHeaderWritten without line 145: the flag stays false
SetHeaderForgotten(t) ==
    /\ tpc[t] = "w145"
    /\ Goto(t, "w147")
    /\ UNCHANGED collectorVarsButPc
    /\ UNCHANGED <<latest_data, lock, save_file, header_written, files, fpc, fres,
                   completed, logged>>

\* line 145
SetHeaderWritten(t) ==
    /\ tpc[t] = "w145"
    /\ header_written' = TRUE
    /\ Goto(t, "w147")
    /\ UNCHANGED collectorVarsButPc
    /\ UNCHANGED <<latest_data, lock, save_file, files, fpc, fres, completed, logged>>

\* lines 147-150: the data line is written
WriteLine(t) ==
    /\ tpc[t] = "w147"
    /\ files' = [files EXCEPT ![save_file] = Append(@, DataLine(ret[t]))]
    /\ Goto(t, "w151")
    /\ UNCHANGED collectorVarsButPc
    /\ UNCHANGED <<latest_data, lock, save_file, header_written, fpc, fres,
                   completed, logged>>

\* WriteFails with line 145 before line 144: the flag is set although the
\* header write raised
WriteFailsFlagSet(t) ==
    /\ tpc[t] \in {"w142", "w147"}
    /\ tpc[t] = "w142" => ~header_written
    /\ header_written' = TRUE
    /\ logged' = [logged EXCEPT ![Len(logged)] = Lost]
    /\ ReturnFromUpdate(t)
    /\ UNCHANGED collectorVarsButPc
    /\ UNCHANGED <<latest_data, save_file, files, fpc, fres>>

\* line 144 or line 150 raises (the disk is full, ...): lines 134-135 swallow it
WriteFails(t) ==
    /\ tpc[t] \in {"w142", "w147"}
    /\ tpc[t] = "w142" => ~header_written
    /\ logged' = [logged EXCEPT ![Len(logged)] = Lost]
    /\ ReturnFromUpdate(t)
    /\ UNCHANGED collectorVarsButPc
    /\ UNCHANGED <<latest_data, save_file, header_written, files, fpc, fres>>

\* line 151: flush (an error is swallowed at lines 134-135), then return
FlushAndReturn(t) ==
    /\ tpc[t] = "w151"
    /\ ReturnFromUpdate(t)
    /\ UNCHANGED collectorVarsButPc
    /\ UNCHANGED <<latest_data, save_file, header_written, files, fpc, fres, logged>>

(***************************************************************************)
(* The front end's calls: get_latest_data, start_saving, stop_saving,      *)
(* is_saving                                                               *)
(***************************************************************************)
Result(op, ok, error, time, data) ==
    [op |-> op, ok |-> ok, error |-> error, time |-> time, data |-> data]

\* a front-end call begins and waits for the lock (lines 155, 165, 178, 194)
FrontCall ==
    /\ fpc = "idle"
    /\ fpc' \in {"g155", "b165", "c178", "i194"}
    /\ UNCHANGED collectorVars
    /\ UNCHANGED <<latest_data, lock, save_file, header_written, files, fres,
                   completed, logged>>

FrontBody == [g155 |-> "g156", b165 |-> "b166", c178 |-> "c179", i194 |-> "i195"]

\* FrontAcquire without the lock: the body is entered whoever holds it
FrontAcquireNoLock ==
    /\ fpc \in DOMAIN FrontBody
    /\ lock' = FrontEnd
    /\ fpc' = FrontBody[fpc]
    /\ UNCHANGED collectorVars
    /\ UNCHANGED <<latest_data, save_file, header_written, files, fres,
                   completed, logged>>

\* with self._lock
FrontAcquire ==
    /\ fpc \in DOMAIN FrontBody
    /\ lock = 0
    /\ lock' = FrontEnd
    /\ fpc' = FrontBody[fpc]
    /\ UNCHANGED collectorVars
    /\ UNCHANGED <<latest_data, save_file, header_written, files, fres,
                   completed, logged>>

\* what the end of "with self._lock" does in a front-end call
FrontReturn ==
    /\ lock' = 0
    /\ fpc' = "idle"

\* lines 156-157: nothing stored yet
GetNoData ==
    /\ fpc = "g156"
    /\ latest_data.empty
    /\ fres' = Result("get", FALSE, "No data available", <<>>, <<>>)
    /\ FrontReturn
    /\ UNCHANGED collectorVars
    /\ UNCHANGED <<latest_data, save_file, header_written, files, completed, logged>>

\* lines 156 and 159: the "time" entry of the dict being returned
GetTime ==
    /\ fpc = "g156"
    /\ ~latest_data.empty
    /\ fres' = Result("get", TRUE, "", StrfTime(latest_data.time), <<>>)
    /\ fpc' = "g160"
    /\ UNCHANGED collectorVars
    /\ UNCHANGED <<latest_data, lock, save_file, header_written, files, completed,
                   logged>>

\* line 160: the "data" entry, and the return
GetData ==
    /\ fpc = "g160"
    /\ fres' = [fres EXCEPT !.data = latest_data.data]
    /\ FrontReturn
    /\ UNCHANGED collectorVars
    /\ UNCHANGED <<latest_data, save_file, header_written, files, completed, logged>>

\* lines 166-167
StartSavingAlready ==
    /\ fpc = "b166"
    /\ save_file # 0
    /\ fres' = Result("start_saving", FALSE, "Already saving", <<>>, <<>>)
    /\ FrontReturn
    /\ UNCHANGED collectorVars
    /\ UNCHANGED <<latest_data, save_file, header_written, files, completed, logged>>

\* lines 169-172: open(filepath, "w") creates or truncates the file
StartSavingOpen ==
    /\ fpc = "b166"
    /\ save_file = 0
    /\ \E p \in Paths :
         /\ save_file' = p
         /\ files' = [files EXCEPT ![p] = <<>>]
    /\ header_written' = FALSE
    /\ logged' = <<>>
    /\ fres' = Result("start_saving", TRUE, "", <<>>, <<>>)
    /\ FrontReturn
    /\ UNCHANGED collectorVars
    /\ UNCHANGED <<latest_data, completed>>

\* lines 173-174: open raises
StartSavingFails ==
    /\ fpc = "b166"
    /\ save_file = 0
    /\ fres' = Result("start_saving", FALSE, "OSError", <<>>, <<>>)
    /\ FrontReturn
    /\ UNCHANGED collectorVars
    /\ UNCHANGED <<latest_data, save_file, header_written, files, completed, logged>>

\* lines 179-180
StopSavingNot ==
    /\ fpc = "c179"
    /\ save_file = 0
    /\ fres' = Result("stop_saving", FALSE, "Not saving", <<>>, <<>>)
    /\ FrontReturn
    /\ UNCHANGED collectorVars
    /\ UNCHANGED <<latest_data, save_file, header_written, files, completed, logged>>

\* StopSavingClose without line 188: the header flag is left as it is
StopSavingKeepsFlag ==
    /\ fpc = "c179"
    /\ save_file # 0
    /\ save_file' = 0
    /\ fres' = Result("stop_saving", TRUE, "", <<>>, <<>>)
    /\ FrontReturn
    /\ UNCHANGED collectorVars
    /\ UNCHANGED <<latest_data, header_written, files, completed, logged>>

\* lines 182-190
StopSavingClose ==
    /\ fpc = "c179"
    /\ save_file # 0
    /\ save_file' = 0
    /\ header_written' = FALSE
    /\ fres' = Result("stop_saving", TRUE, "", <<>>, <<>>)
    /\ FrontReturn
    /\ UNCHANGED collectorVars
    /\ UNCHANGED <<latest_data, files, completed, logged>>

\* line 195
IsSaving ==
    /\ fpc = "i195"
    /\ fres' = Result("is_saving", save_file # 0, "", <<>>, <<>>)
    /\ FrontReturn
    /\ UNCHANGED collectorVars
    /\ UNCHANGED <<latest_data, save_file, header_written, files, completed, logged>>

(***************************************************************************)
(* Specifications                                                          *)
(***************************************************************************)
Device(s, menu) == DeviceReply(s, menu) \/ DeviceClose(s) \/ DeviceReset(s)

Lifecycle ==
    \/ CallStart \/ StartCheck \/ StartSetRunning \/ StartCreateThread \/ StartThread
    \/ CallStop \/ StopClearRunning \/ StopTestSocket \/ StopCloseSocket
    \/ StopTestThread \/ StopJoined \/ StopJoinTimeout

PollLoop(t) ==
    \/ LoopTest(t) \/ CreateSocket(t) \/ CreateSocketFails(t)
    \/ Connect(t) \/ ConnectFails(t) \/ SessionTest(t)
    \/ SendRequest(t) \/ SendFails(t) \/ ReadTest(t)
    \/ RecvChunk(t) \/ RecvTimeout(t) \/ RecvError(t) \/ RecvClosed(t)
    \/ AfterRead(t) \/ Parse(t) \/ InvokeCallback(t) \/ CallbackRaises(t)
    \/ FinallyTest(t) \/ FinallyClose(t) \/ FinallyClear(t)
    \/ BackoffTest(t) \/ BackoffDone(t)

Publish(t) == UpdateAcquire(t) \/ UpdateStore(t) \/ UpdateNoFile(t)

LogWrite(t) ==
    \/ UpdateToFile(t) \/ WriteHeader(t) \/ SkipHeader(t) \/ SetHeaderWritten(t)
    \/ WriteLine(t) \/ WriteFails(t) \/ FlushAndReturn(t)

FrontEndCalls ==
    \/ FrontCall \/ FrontAcquire \/ GetNoData \/ GetTime \/ GetData
    \/ StartSavingAlready \/ StartSavingOpen \/ StartSavingFails
    \/ StopSavingNot \/ StopSavingClose \/ IsSaving

\* start() and stop() against the poll loop, the device and the store; the
\* device answers with short frames and the front end never attaches a log
Next ==
    \/ Lifecycle
    \/ \E t \in Threads : PollLoop(t) \/ Publish(t)
    \/ \E s \in SockIds : Device(s, ShortFrames)

Spec == Init /\ [][Next]_vars

\* the collector after start(): one poll thread at line 41
InitWire ==
    /\ running = TRUE
    /\ thread = 1
    /\ sock = 0
    /\ tpc = [t \in Threads |-> IF t = 1 THEN "l41" ELSE "unborn"]
    /\ received_buffer = [t \in Threads |-> <<>>]
    /\ ret = [t \in Threads |-> EmptyDict]
    /\ cpc = "idle"
    /\ sockets = [s \in SockIds |-> NoSocket]
    /\ sent = 0
    /\ callback_failed = FALSE
    /\ latest_data = EmptyDict
    /\ lock = 0
    /\ save_file = 0
    /\ header_written = FALSE
    /\ files = [p \in Paths |-> <<>>]
    /\ fpc = "idle"
    /\ fres = NoResult
    /\ completed = EmptyDict
    /\ logged = <<>>

\* a running collector against the device, with every frame and every way of
\* cutting the answers into chunks; stop() is not called
NextWire ==
    \/ \E t \in Threads : PollLoop(t) \/ Publish(t)
    \/ \E s \in SockIds : Device(s, Frames)

SpecWire == InitWire /\ [][NextWire]_vars

\* the readings the poll loop can hand to update_data
Readings == {Reading(ParseFrame(f).ret) : f \in StoreFrames}

\* lines 47-93 in one step: an exchange that ends with a reading to publish
Exchange(t) ==
    /\ tpc[t] = "l47"
    /\ sent < MaxPublishes
    /\ sent' = sent + 1
    /\ \E r \in Readings : ret' = [ret EXCEPT ![t] = r]
    /\ Goto(t, "l95")
    /\ UNCHANGED <<running, thread, sock, received_buffer, cpc, sockets, callback_failed>>
    /\ UNCHANGED apiVars

\* the collector in a session: the poll thread at line 47, about to poll
InitStore ==
    /\ running = TRUE
    /\ thread = 1
    /\ sock = 1
    /\ tpc = [t \in Threads |-> IF t = 1 THEN "l47" ELSE "unborn"]
    /\ received_buffer = [t \in Threads |-> <<>>]
    /\ ret = [t \in Threads |-> EmptyDict]
    /\ cpc = "idle"
    /\ sockets = [s \in SockIds |-> IF s = 1 THEN [NewSocket EXCEPT !.st = "conn"]
                                            ELSE NoSocket]
    /\ sent = 0
    /\ callback_failed = FALSE
    /\ latest_data = EmptyDict
    /\ lock = 0
    /\ save_file = 0
    /\ header_written = FALSE
    /\ files = [p \in Paths |-> <<>>]
    /\ fpc = "idle"
    /\ fres = NoResult
    /\ completed = EmptyDict
    /\ logged = <<>>

\* the store and the log: the poll thread publishes readings while the front
\* end reads the store and attaches and detaches the log
NextStore ==
    \/ \E t \in Threads : Exchange(t) \/ InvokeCallback(t) \/ Publish(t) \/ LogWrite(t)
    \/ FrontEndCalls

SpecStore == InitStore /\ [][NextStore]_vars

\* lines 103-113 and 41: from the finally clause to the next test of _running
CleanUp(t) ==
    \/ FinallyTest(t) \/ FinallyClose(t) \/ FinallyClear(t)
    \/ BackoffTest(t) \/ BackoffDone(t) \/ LoopTest(t)

\* a running collector against a device whose answers are short: what the
\* loop does after a failure does not depend on what the frames hold
NextRetry ==
    \/ \E t \in Threads : PollLoop(t) \/ Publish(t)
    \/ \E s \in SockIds : Device(s, ShortFrames)

\* the poll thread is scheduled again and again and its sleep ends: no step
\* from the finally clause to the next test of _running is put off for ever
SpecRetry ==
    /\ InitWire /\ [][NextRetry]_vars
    /\ \A t \in Threads : WF_vars(CleanUp(t))

\* and the device is reachable again and again: of the attempts to create a
\* socket and to connect, not all fail for ever
SpecRetryUp ==
    /\ SpecRetry
    /\ \A t \in Threads :
        SF_vars(CreateSocket(t)) /\ SF_vars(Connect(t)) /\ WF_vars(SessionTest(t))

\* the steps of _run against a device that accepts connections and never
\* answers
PollSilent(t) ==
    \/ CreateSocket(t) \/ CreateSocketFails(t)
    \/ Connect(t) \/ ConnectFails(t) \/ SessionTest(t)
    \/ SendRequest(t) \/ SendFails(t) \/ ReadTest(t)
    \/ RecvTimeout(t) \/ RecvError(t) \/ RecvClosed(t)
    \/ AfterRead(t) \/ Parse(t)
    \/ CleanUp(t)

\* the objects as constructed, with room for a Thread object per start()
InitSilent ==
    /\ running = FALSE
    /\ thread = 0
    /\ sock = 0
    /\ tpc = [t \in Threads |-> "unborn"]
    /\ received_buffer = [t \in Threads |-> <<>>]
    /\ ret = [t \in Threads |-> EmptyDict]
    /\ cpc = "idle"
    /\ sockets = [s \in SockIds |-> NoSocket]
    /\ sent = 0
    /\ callback_failed = FALSE
    /\ latest_data = EmptyDict
    /\ lock = 0
    /\ save_file = 0
    /\ header_written = FALSE
    /\ files = [p \in Paths |-> <<>>]
    /\ fpc = "idle"
    /\ fres = NoResult
    /\ completed = EmptyDict
    /\ logged = <<>>

\* start() and stop() called again and again while the threads of earlier
\* calls may still be alive; the device is silent
NextSilent ==
    \/ Lifecycle
    \/ \E t \in Threads : PollSilent(t)
    \/ \E s \in SockIds : DeviceClose(s) \/ DeviceReset(s) \/ CollectSocket(s)

SpecSilent == InitSilent /\ [][NextSilent]_vars

\* the application as main wires it (lines 219-253), in an outage: an
\* exchange succeeds in one step or meets a device that is unreachable,
\* silent, closing or resetting, while the front end calls the api object
NextOutage ==
    \/ NextStore
    \/ \E t \in Threads : PollSilent(t)
    \/ \E s \in SockIds : DeviceClose(s) \/ DeviceReset(s)

SpecOutage == InitWire /\ [][NextOutage]_vars

\* the running collector publishes what the device sends while the front
\* end asks for the latest reading (get_latest_data only, no log attached)
NextReport ==
    \/ \E t \in Threads : PollLoop(t) \/ Publish(t)
    \/ \E s \in SockIds : Device(s, ShortFrames)
    \/ (FrontCall /\ fpc' = "g155") \/ FrontAcquire
    \/ GetNoData \/ GetTime \/ GetData

SpecReport == InitWire /\ [][NextReport]_vars

\* every thread in _run is scheduled again and again, and its connect, recv
\* and sleep end (timeouts of 2.0 s and a sleep of 1 s); a call of start() or
\* stop() that has begun runs to its end (the join gives up after 2.0 s)
SpecSilentFair ==
    /\ SpecSilent
    /\ \A t \in Threads : WF_vars(PollSilent(t))
    /\ WF_vars(\/ StartCheck \/ StartSetRunning \/ StartCreateThread \/ StartThread
               \/ StopClearRunning \/ StopTestSocket \/ StopCloseSocket
               \/ StopTestThread \/ StopJoined \/ StopJoinTimeout)

---------------------------------------------------------------------------
\* The claims

\* the poll thread t hands a reading to the callback (line 96 is entered)
CallbackInvoked(t) == tpc[t] = "l95" /\ tpc'[t] # "l95"

\* C1: once stop() has returned, the callback is not invoked again; here
\* stop() has returned from the moment its last line is passed until the
\* next call of start() or stop()
C1_NoCallbackAfterStop ==
    [][cpc = "stopped" => \A t \in Threads : ~CallbackInvoked(t)]_vars

\* C2: whenever the callback is about to be invoked, the accumulation buffer
\* the reading was parsed from holds the terminator: an exchange that ended
\* in another way publishes nothing
C2_PublishOnlyTerminated ==
    \A t \in Threads : tpc[t] = "l95" => Contains(received_buffer[t], terminator)

\* no socket is open
AllSocketsClosed == \A s \in SockIds : sockets[s].st \notin {"open", "conn"}

\* C3: with the collector running, a failed connect and a zero-length read
\* lead into the clean-up (they do not end the thread); the clean-up leads
\* to the backoff wait, which starts with the socket closed and forgotten;
\* the wait leads to a fresh attempt at line 43, and an attempt is never
\* begun without a wait before it; the thread never terminates
C3_RetryForever ==
    /\ [][\A t \in Threads :
            /\ tpc[t] = "l45" /\ tpc'[t] \notin {"l45", "l47"} => tpc'[t] = "l104"
            /\ tpc[t] = "l57" /\ tpc'[t] \notin {"l57", "l55", "l69"} => tpc'[t] = "l104"
            /\ tpc[t] # "l41" /\ tpc'[t] = "l41" => tpc[t] = "l113"]_vars
    /\ [](\A t \in Threads : tpc[t] \in {"l112", "l113"} => sock = 0 /\ AllSocketsClosed)
    /\ [](\A t \in Threads : tpc[t] # "dead")
    /\ \A t \in Threads : (tpc[t] = "l104") ~> (tpc[t] = "l113")
    /\ \A t \in Threads : (tpc[t] = "l113") ~> (tpc[t] = "l43")

\* C3 happens: the poll thread waits in the backoff, its socket closed, after
\* the device closed the connection in the middle of a frame and the read
\* of length zero ended the session
C3_Backoff ==
    /\ tpc[1] = "l113"
    /\ sock = 0 /\ AllSocketsClosed
    /\ sockets[1].st = "closed" /\ sockets[1].peer = "fin"
    /\ ~callback_failed /\ ret[1].empty
    /\ received_buffer[1] # <<>> /\ ~Contains(received_buffer[1], terminator)

\* C4: an exception of the callback is caught: the step leaves line 96 for
\* the clean-up with _running and the store as they were, the thread never
\* terminates, and, the device being reachable, the loop comes to send a
\* poll request again (line 50)
C4_CallbackFailureTolerated ==
    /\ [][\A t \in Threads :
            tpc[t] = "l95" /\ tpc'[t] \notin {"l95", "u127"}
            => tpc'[t] = "l104" /\ running' = running /\ latest_data' = latest_data]_vars
    /\ [](\A t \in Threads : tpc[t] # "dead")
    /\ \A t \in Threads : (tpc[t] = "l104" /\ ~ret[t].empty) ~> (tpc[t] = "l50")

\* C4 happens: after an exception of the callback was caught, the poll
\* thread has just returned from publishing a later reading
C4_PublishedAfterFailure ==
    /\ callback_failed
    /\ tpc[1] = "l47"
    /\ ~ret[1].empty /\ completed = ret[1] /\ latest_data = ret[1]

\* the exchange that filled the buffer gave a malformed frame: fewer than two
\* lines, or a first line that strptime rejects
Malformed(buffer) ==
    \/ Len(SplitLines(buffer)) < 2
    \/ ~StrpTime(SplitLines(buffer)[1]).ok

\* C5: the step that parses a malformed frame invokes no callback and goes
\* back to line 47 with the store, _socket and the sockets as they were; from
\* line 47 the running loop goes to the send of line 50, again touching
\* nothing; and the step at line 50 is the send on the socket of the session
\* (the request goes out on it, or sendall raises)
C5_MalformedDiscarded ==
    [][\A t \in Threads :
        /\ tpc[t] = "l75" /\ tpc'[t] # "l75" /\ Malformed(received_buffer[t])
           => /\ tpc'[t] = "l47"
              /\ UNCHANGED <<latest_data, completed, sock, sockets>>
        /\ tpc[t] = "l47" /\ tpc'[t] # "l47" /\ running
           => /\ tpc'[t] = "l50"
              /\ UNCHANGED <<latest_data, completed, sock, sockets>>
        /\ tpc[t] = "l50" /\ tpc'[t] # "l50"
           => /\ sock' = sock
              /\ \/ /\ tpc'[t] = "l55"
                    /\ sockets[sock].st = "conn" /\ sockets'[sock].st = "conn"
                    /\ sockets[sock].peer = "up"
                       => sockets'[sock].req = sockets[sock].req + 1
                 \/ tpc'[t] = "l104" /\ sockets' = sockets]_vars

\* C5 happens: after a reading was published, the next exchange ended on the
\* terminator with a malformed frame, and the poll thread is at the send of
\* line 50 with the session's socket connected and the store as it was
C5_NextPoll ==
    /\ tpc[1] = "l50"
    /\ Contains(received_buffer[1], terminator) /\ Malformed(received_buffer[1])
    /\ sock # 0 /\ sockets[sock].st = "conn"
    /\ ~latest_data.empty /\ latest_data = completed

\* C6: a read ends the accumulation as "frame complete" exactly when the text
\* accumulated so far holds "END", seven spaces and a newline
C6_EndsOnFullTerminator ==
    [][\A t \in Threads :
        tpc[t] = "l57" /\ received_buffer'[t] # received_buffer[t]
        => (tpc'[t] = "l69" <=> Contains(received_buffer'[t], EndLine))]_vars

\* C7: get_latest_data returns "No data available" exactly when no publish
\* has completed, and otherwise the time and the data of the publish that
\* completed last; a store that holds a reading never becomes empty again
C7_StoreAtomic ==
    /\ [][fpc' = "idle" /\ fpc \in {"g156", "g160"}
          => fres' = IF completed.empty
                     THEN Result("get", FALSE, "No data available", <<>>, <<>>)
                     ELSE Result("get", TRUE, "", StrfTime(completed.time),
                                 completed.data)]_vars
    /\ [][~latest_data.empty => ~latest_data'.empty]_vars
    /\ [][~completed.empty => ~completed'.empty]_vars

\* C7 happens: two publishes have completed and get_latest_data has returned
\* the second
C7_GotLatest ==
    /\ fpc = "idle" /\ fres.op = "get" /\ fres.ok
    /\ sent = 2 /\ tpc[1] = "l47" /\ lock = 0
    /\ fres.time = StrfTime(completed.time) /\ fres.data = completed.data
    /\ Len(fres.data) = 4

\* C8: with no file attached the header flag is false; start_saving with a
\* file attached returns "Already saving" and leaves the file, its content
\* and the flag alone; stop_saving with no file attached returns "Not saving"
\* and changes nothing; a successful stop_saving leaves no file attached and
\* the flag false; start_saving with no file attached is never refused as
\* "Already saving", and when open succeeds the file is attached, empty, with
\* the flag false
C8_AttachDetach ==
    /\ [](save_file = 0 => ~header_written)
    /\ [][fpc = "b166" /\ fpc' = "idle" /\ save_file # 0
          => /\ fres' = Result("start_saving", FALSE, "Already saving", <<>>, <<>>)
             /\ UNCHANGED <<save_file, header_written, files, latest_data>>]_vars
    /\ [][fpc = "c179" /\ fpc' = "idle" /\ save_file = 0
          => /\ fres' = Result("stop_saving", FALSE, "Not saving", <<>>, <<>>)
             /\ UNCHANGED <<save_file, header_written, files, latest_data>>]_vars
    /\ [][fpc = "c179" /\ fpc' = "idle" /\ save_file # 0
          => fres'.ok /\ save_file' = 0 /\ ~header_written']_vars
    /\ [][fpc = "b166" /\ fpc' = "idle" /\ save_file = 0
          => /\ fres'.error # "Already saving"
             /\ fres'.ok => save_file' # 0 /\ ~header_written' /\ files'[save_file'] = <<>>
             /\ ~fres'.ok => save_file' = 0 /\ ~header_written']_vars

\* C8 happens: stop_saving has detached a file that holds a header and a
\* data line: the flag, set when the header was written, is false again
C8_Detached ==
    /\ fpc = "idle"
    /\ fres = Result("stop_saving", TRUE, "", <<>>, <<>>)
    /\ save_file = 0 /\ ~header_written
    /\ Len(files[1]) = 2

\* no write of the session has raised
WritesSucceeded == \A i \in 1..Len(logged) : ~logged[i].empty

\* one header line, for the channels of the first reading, then one data line
\* for each reading
ExpectedLog(readings) ==
    IF readings = <<>> THEN <<>>
    ELSE <<HeaderLine(readings[1])>> \o [i \in 1..Len(readings) |-> DataLine(readings[i])]

\* the header of a log whose first reading has four channels
HeaderFourChannels ==
    <<"T", "i", "m", "e", "\t", "C", "H", "0", "0", "0", "\t", "C", "H", "0", "0", "1",
      "\t", "C", "H", "0", "0", "2", "\t", "C", "H", "0", "0", "3", "\n">>

\* C9: while a file is attached, no publish is under way and no write of the
\* session has raised, the file holds one header line, for the channels of
\* the first reading logged, and then one data line for each reading
\* published since the attach, in the order of the publishes; four channels
\* give the header Time, CH000, CH001, CH002, CH003
C9_LogContent ==
    save_file # 0 /\ lock \notin Threads /\ WritesSucceeded
    => /\ files[save_file] = ExpectedLog(logged)
       /\ logged # <<>> /\ Len(logged[1].data) = 4
          => files[save_file][1] = HeaderFourChannels

\* C9 happens: two readings, the first of four channels and the second of
\* two, were published in one session and the file holds three lines
C9_TwoReadingsLogged ==
    /\ save_file # 0 /\ lock = 0 /\ WritesSucceeded
    /\ Len(logged) = 2 /\ Len(logged[1].data) = 4 /\ Len(logged[2].data) = 2
    /\ Len(files[save_file]) = 3

\* the number of times sep occurs in s, found from the left without overlap
RECURSIVE CountFrom(_, _, _)
CountFrom(s, sep, i) ==
    IF i + Len(sep) - 1 > Len(s) THEN 0
    ELSE IF OccursAt(s, sep, i) THEN 1 + CountFrom(s, sep, i + Len(sep))
    ELSE CountFrom(s, sep, i + 1)

\* the line splits on two spaces into exactly two parts
IsChannelLine(line) == CountFrom(line, FieldSep, 1) = 1

\* the second part of a channel line
SecondPart(line) ==
    LET p == CHOOSE i \in 1..Len(line) : OccursAt(line, FieldSep, i)
                                         /\ \A j \in 1..(i - 1) : ~OccursAt(line, FieldSep, j)
    IN  SubSeq(line, p + Len(FieldSep), Len(line))

\* the channels of a frame: one slot for each channel line, in order
ExpectedChannels(lines) ==
    LET chan == SelectSeq(lines, IsChannelLine)
    IN  [i \in 1..Len(chan) |->
            IF Float(SecondPart(chan[i])).ok THEN Float(SecondPart(chan[i])).val
            ELSE None]

\* C10: the data of a parsed frame has one slot for each line after the
\* first that splits on two spaces into exactly two parts, in the order of
\* the lines: the number the second part stands for, or None when it stands
\* for none; the other lines, the terminator line among them, add no slot
C10_ChannelSlots ==
    /\ ChannelSlot(terminator) = <<>>
    /\ \A t \in Threads :
        tpc[t] = "l95"
        => ret[t].data = ExpectedChannels(Tail(SplitLines(received_buffer[t])))

\* C10 happens: a frame of four lines was parsed into two slots, a number
\* and then None; the terminator line added none
C10_NumberThenNone ==
    /\ tpc[1] = "l95"
    /\ Len(SplitLines(received_buffer[1])) = 4
    /\ Len(ret[1].data) = 2
    /\ ret[1].data[1] # None /\ ret[1].data[2] = None

\* C11: at most one thread executes _run at any time, whatever start() and
\* stop() calls are made
C11_OneLoop ==
    Cardinality({t \in Threads : IsAlive(t)}) <= 1

\* C12: a read that fails with an error other than a timeout, with the
\* collector running, ends the exchange without parsing: the step from the
\* end of the read loop (line 69) into the parser (line 75) is taken only
\* with a buffer that holds the terminator, never with the partial buffer a
\* failed read leaves behind
C12_FailedReadNotParsed ==
    [][\A t \in Threads :
        (tpc[t] = "l69" /\ tpc'[t] = "l75")
            => Contains(received_buffer[t], terminator)]_vars

\* recv at line 57 can only time out: the socket is connected, the peer is
\* up and nothing has arrived
OnlyTimeout == CanRecv /\ sockets[sock].peer = "up" /\ sockets[sock].inbox = <<>>

\* recv at line 57 returns b"": the peer has closed and nothing is left
PeerClosed == CanRecv /\ sockets[sock].peer = "fin" /\ sockets[sock].inbox = <<>>

\* the step of thread t leaves the read loop of lines 55-67
LeavesReadLoop(t) == tpc[t] \in {"l55", "l57"} /\ tpc'[t] \notin {"l55", "l57"}

\* C13 as stated: a timeout goes back to the test of line 55 with the buffer,
\* the sockets and the store unchanged; with _running true the loop reads
\* again; and the read loop is left only with the terminator accumulated,
\* with _running false or on a peer close
C13_OnlyCancelOrClose ==
    [][\A t \in Threads :
        /\ (tpc[t] = "l57" /\ OnlyTimeout /\ tpc'[t] # "l57")
              => /\ tpc'[t] = "l55"
                 /\ UNCHANGED <<received_buffer, sockets, sock, latest_data>>
        /\ (tpc[t] = "l55" /\ running /\ tpc'[t] # "l55") => tpc'[t] = "l57"
        /\ LeavesReadLoop(t)
              => \/ Contains(received_buffer'[t], terminator)
                 \/ ~running
                 \/ PeerClosed]_vars

\* C13, amended: the same, and a receive error other than a timeout also
\* ends the read loop
C13_TimeoutKeepsReading ==
    [][\A t \in Threads :
        /\ (tpc[t] = "l57" /\ OnlyTimeout /\ tpc'[t] # "l57")
              => /\ tpc'[t] = "l55"
                 /\ UNCHANGED <<received_buffer, sockets, sock, latest_data>>
        /\ (tpc[t] = "l55" /\ running /\ tpc'[t] # "l55") => tpc'[t] = "l57"
        /\ LeavesReadLoop(t)
              => \/ Contains(received_buffer'[t], terminator)
                 \/ ~running
                 \/ PeerClosed
                 \/ ~CanRecv]_vars

\* the poll thread is in recv with a request sent, part of the answer
\* accumulated and nothing more arrived: the read can only time out
C13_WaitingForMore ==
    /\ tpc[1] = "l57" /\ running /\ OnlyTimeout
    /\ received_buffer[1] # <<>>
    /\ ~Contains(received_buffer[1], terminator)

\* C14: after stop() has cleared _running (line 30), every thread that is in
\* _run at that moment eventually leaves it
C14_StopEndsThread ==
    \A t \in Threads : (cpc = "s31" /\ IsAlive(t)) ~> ~IsAlive(t)

\* C15: at most one socket is open at any time, and whenever a thread of the
\* poll loop is in its backoff wait (lines 112-113) or has exited, no socket
\* is open and _socket is None
C15_SocketsClosed ==
    /\ Cardinality({s \in SockIds : sockets[s].st \in {"open", "conn"}}) <= 1
    /\ \A t \in Threads :
         tpc[t] \in {"l112", "l113", "dead"} => sock = 0 /\ AllSocketsClosed

\* thread t is inside "with self._lock" of update_data (lines 128-135)
Publishing(t) == tpc[t] \in {"u128", "u131", "w142", "w145", "w147", "w151"}

\* the front end is inside "with self._lock" of one of its calls
FrontInside == fpc \in {"g156", "g160", "b166", "c179", "i195"}

\* C16: a publish holds the lock from the store update to the end of the log
\* write and no front-end call is inside its own locked body meanwhile; the
\* attached file does not change during a publish; lines are appended only
\* to the attached file, so none after stop_saving closed it; and the
\* attached file holds a header with no data line only while a publish is
\* under way or after a write has raised, so stop_saving closes no file in
\* that state unless a write raised
C16_PublishAtomic ==
    /\ [](\A t \in Threads : Publishing(t) => lock = t /\ ~FrontInside)
    /\ [][(\E t \in Threads : Publishing(t)) => save_file' = save_file]_vars
    /\ [][files' # files /\ fpc # "b166"
          => /\ save_file # 0 /\ save_file' = save_file
             /\ \E t \in Threads : lock = t
             /\ \A p \in Paths \ {save_file} : files'[p] = files[p]]_vars
    /\ [](save_file # 0 /\ Len(files[save_file]) = 1
            => (\E t \in Threads : lock = t) \/ ~WritesSucceeded)
    /\ [][(fpc = "c179" /\ fpc' = "idle" /\ save_file # 0
              /\ Len(files[save_file]) = 1)
            => ~WritesSucceeded]_vars

\* C16 happens: a publish waits for the lock while stop_saving, inside its
\* locked body, is about to close a file that holds a header and a data line
C16_PublishWaitsForStop ==
    /\ tpc[1] = "u127" /\ fpc = "c179" /\ lock = FrontEnd
    /\ save_file # 0 /\ Len(files[save_file]) = 2

\* C17: the poll thread holds the lock only inside update_data, so never
\* while it connects, sends, receives or waits in the backoff; a front-end
\* call that waits for the lock while no publish is under way can take it,
\* and a call that holds the lock always has its next step
C17_LockOnlyInPublish ==
    /\ \A t \in Threads : lock = t => Publishing(t)
    /\ \A t \in Threads :
         tpc[t] \in {"l43", "l45", "l50", "l55", "l57", "l112", "l113"} => lock # t
    /\ (fpc \in DOMAIN FrontBody /\ \A t \in Threads : ~Publishing(t))
         => ENABLED FrontAcquire
    /\ FrontInside => lock = FrontEnd /\ ENABLED FrontEndCalls

\* C17 happens: after a publish the device has gone silent, the poll thread
\* is in recv, and start_saving has taken the lock
C17_CallDuringSilence ==
    /\ tpc[1] = "l57" /\ OnlyTimeout
    /\ ~completed.empty
    /\ fpc = "b166" /\ lock = FrontEnd

\* the accumulated text is a valid timestamp line followed only by the
\* terminator line
EmptyDataFrame(buffer) ==
    /\ Len(SplitLines(buffer)) = 2
    /\ StrpTime(SplitLines(buffer)[1]).ok
    /\ SplitLines(buffer)[2] = terminator

\* C18: a frame that is a valid timestamp line and the terminator line parses
\* to a reading with that time and no channels and goes to the callback;
\* update_data stores the reading it is given; and get_latest_data, when the
\* last completed publish had no channels, returns ok with its time and an
\* empty data list, not "No data available"
C18_EmptyDataPublished ==
    /\ [][\A t \in Threads :
            (tpc[t] = "l75" /\ tpc'[t] # "l75" /\ EmptyDataFrame(received_buffer[t]))
              => /\ tpc'[t] = "l95"
                 /\ ~ret'[t].empty /\ ret'[t].data = <<>>
                 /\ ret'[t].time = StrpTime(SplitLines(received_buffer[t])[1]).val]_vars
    /\ [][\A t \in Threads :
            (tpc[t] = "u128" /\ tpc'[t] # "u128") => latest_data' = ret[t]]_vars
    /\ [][(fpc' = "idle" /\ fpc \in {"g156", "g160"}
              /\ ~completed.empty /\ completed.data = <<>>)
            => fres' = Result("get", TRUE, "", StrfTime(completed.time), <<>>)]_vars

\* C18 happens: a frame without channels was published and get_latest_data
\* has returned it
C18_GotEmptyReading ==
    /\ fpc = "idle" /\ lock = 0
    /\ ~completed.empty /\ completed.data = <<>>
    /\ fres = Result("get", TRUE, "", StrfTime(completed.time), <<>>)
    /\ EmptyDataFrame(received_buffer[1])

\* C19: the exchanges of a connection are isolated: when an exchange has
\* accumulated a frame that parses and the next poll request is about to be
\* sent (line 50) on the live connection, no byte of the response is left
\* unread, to become the beginning of the next exchange's buffer
C19_FramesIsolated ==
    \A t \in Threads :
        ( /\ tpc[t] = "l50"
          /\ Contains(received_buffer[t], terminator)
          /\ ParseFrame(received_buffer[t]).ok
          /\ CanRecv /\ sockets[sock].peer = "up" )
        => sockets[sock].inbox = <<>>

\* the step of thread t is a write to the log that raises: update_data is
\* left from line 144 or line 150 without the rest of the writes
WriteRaised(t) == tpc[t] \in {"w142", "w147"} /\ tpc'[t] \notin {"w142", "w145", "w147", "w151"}

\* C20: a write to the log that raises returns to the session loop (line 47,
\* not the clean-up) with the new reading in the store, the sockets, the
\* attached file, its content and the header flag as they were; update_data
\* is never left for the clean-up; and the header flag is true only with a
\* header in the file and false, outside line 145, only with an empty file,
\* so that a header whose write raised is written by the next publish
C20_WriteFailureContained ==
    /\ [][\A t \in Threads :
            WriteRaised(t)
              => /\ tpc'[t] = "l47"
                 /\ latest_data' = ret[t] /\ ~latest_data'.empty
                 /\ save_file' = save_file /\ save_file' # 0
                 /\ UNCHANGED <<running, sock, sockets, files, header_written>>]_vars
    /\ [][\A t \in Threads :
            (tpc[t] = "u127" \/ Publishing(t))
              => (tpc'[t] = "u127" \/ Publishing(t)' \/ tpc'[t] = "l47")]_vars
    /\ [](save_file # 0 /\ header_written => files[save_file] # <<>>)
    /\ [](save_file # 0 /\ ~header_written /\ (\A t \in Threads : tpc[t] # "w145")
            => files[save_file] = <<>>)
    /\ [][\A t \in Threads :
            (tpc[t] = "w142" /\ ~header_written /\ tpc'[t] = "w145")
              => files'[save_file] = Append(files[save_file], HeaderLine(ret[t]))]_vars

\* C20 happens: the header write of the first publish after the attach has
\* raised: the thread is back at line 47, the store holds the reading, the
\* file is attached and empty and the flag is false
C20_HeaderWriteFailed ==
    /\ tpc[1] = "l47" /\ lock = 0
    /\ save_file # 0 /\ files[save_file] = <<>> /\ ~header_written
    /\ Len(logged) = 1 /\ logged[1] = Lost
    /\ ~latest_data.empty /\ completed = latest_data

=============================================================================
